---- MODULE Spec2Model ----
(***************************************************************************)
(* Model of the Fasttrack process-import engine                            *)
(* (src/src/services/excel_processor.py and src/src/app.py): the sheet     *)
(* scan that infers the hierarchy, the work item normalizer, the bulk      *)
(* mutator, the type-mapping update, the model merger, the tree            *)
(* reconstructor and the CSV export, over the persisted-model store.       *)
(*                                                                         *)
(* Text values (cell contents, titles, ids, area paths) are sequences of   *)
(* words.  A word is an indivisible piece of text ("A", "Epic", "0") or    *)
(* one of the two characters the code treats specially: the blank " "      *)
(* (removed by str.strip) and the backslash (the area path separator).     *)
(* The words are chosen so that no text has two spellings, hence equality  *)
(* of word sequences is equality of the Python strings.                    *)
(* Dictionary keys and column names are atomic strings.                    *)
(***************************************************************************)
EXTENDS Integers, Sequences, FiniteSets, TLC

VARIABLES
    store,                  \* models_dir: model id -> stored model (the JSON files)
    exports,                \* exports_dir: ids of the models with an export file
    uuid_count,             \* number of uuid.uuid4() values drawn so far
    ops,                    \* number of requests served so far
    last,                   \* the last request and its response
    df,                     \* _convert_to_work_items: the cleaned sheet scanned
    idx,                    \* _convert_to_work_items: index of the next row
    last_parent_at_level,   \* _convert_to_work_items: level -> last seen title
    work_items,             \* _convert_to_work_items: items produced so far
    row_seen,               \* _convert_to_work_items: <<row>> last iterated, or <<>>
    inflight                \* per request handler: the model it read, until it wrote

vars == <<store, exports, uuid_count, ops, last,
          df, idx, last_parent_at_level, work_items, row_seen, inflight>>

storeVars == <<store, exports, uuid_count, ops, last>>
scanVars == <<df, idx, last_parent_at_level, work_items, row_seen>>

(***************************************************************************)
(* Bounds of the model                                                     *)
(***************************************************************************)
MaxRows == 3        \* rows of a scanned sheet
MaxOps == 3         \* requests served in one behaviour
MaxMergeIds == 2    \* model ids in one merge request
MaxNormRows == 2    \* rows of a sheet given to the normalizer

(***************************************************************************)
(* Text                                                                    *)
(***************************************************************************)
Sp == " "
Bs == "\\"

Range(s) == {s[i] : i \in 1..Len(s)}

RECURSIVE LStrip(_)
LStrip(s) == IF s # <<>> /\ Head(s) = Sp THEN LStrip(Tail(s)) ELSE s

RECURSIVE RStrip(_)
RStrip(s) ==
    IF s # <<>> /\ s[Len(s)] = Sp THEN RStrip(SubSeq(s, 1, Len(s) - 1)) ELSE s

\* str.strip()
Strip(s) == RStrip(LStrip(s))

\* sep.join(parts)
RECURSIVE Join(_, _)
Join(parts, sep) ==
    IF parts = <<>> THEN <<>>
    ELSE IF Len(parts) = 1 THEN parts[1]
    ELSE parts[1] \o sep \o Join(Tail(parts), sep)

Digit(n) == <<"0", "1", "2", "3", "4", "5", "6", "7", "8", "9">>[n + 1]

\* str(n) of a natural number
RECURSIVE IntToStr(_)
IntToStr(n) == IF n < 10 THEN <<Digit(n)>> ELSE IntToStr(n \div 10) \o <<Digit(n % 10)>>

\* "%04d" of a natural number
Pad4(n) ==
    LET s == IntToStr(n)
    IN  IF Len(s) >= 4 THEN s ELSE [i \in 1..(4 - Len(s)) |-> "0"] \o s

\* the characters of the column names the sheets use, for str.lower and `in`
Spelling(name) ==
    CASE name = "Title 1" -> <<"T", "i", "t", "l", "e", " ", "1">>
      [] name = "Title 2" -> <<"T", "i", "t", "l", "e", " ", "2">>
      [] name = "Title 3" -> <<"T", "i", "t", "l", "e", " ", "3">>
      [] name = "Title 4" -> <<"T", "i", "t", "l", "e", " ", "4">>
      [] name = "Title 5" -> <<"T", "i", "t", "l", "e", " ", "5">>
      [] name = "Type" -> <<"T", "y", "p", "e">>
      [] name = "type" -> <<"t", "y", "p", "e">>
      [] name = "State" -> <<"S", "t", "a", "t", "e">>
      [] name = "Area Path" -> <<"A", "r", "e", "a", " ", "P", "a", "t", "h">>
      [] name = "Notes" -> <<"N", "o", "t", "e", "s">>
      [] name = "Name" -> <<"N", "a", "m", "e">>
      [] name = "Owner" -> <<"O", "w", "n", "e", "r">>

LowerChar(c) ==
    CASE c = "T" -> "t" [] c = "S" -> "s" [] c = "A" -> "a" [] c = "P" -> "p"
      [] c = "N" -> "n" [] c = "O" -> "o" [] c = "B" -> "b" [] c = "C" -> "c"
      [] OTHER -> c

\* str.lower()
Lower(s) == [i \in 1..Len(s) |-> LowerChar(s[i])]

\* sub in s
Contains(sub, s) ==
    \E i \in 1..(Len(s) - Len(sub) + 1) : SubSeq(s, i, i + Len(sub) - 1) = sub

(***************************************************************************)
(* Sheets: a dataframe is its column names and its rows; a cell is NaN or  *)
(* a text.                                                                 *)
(***************************************************************************)
NaN == [na |-> TRUE, v |-> <<>>]
Cell(s) == [na |-> FALSE, v |-> s]

\* pd.notna(row[col]) and str(row[col]).strip()
HasText(c) == ~c.na /\ Strip(c.v) # <<>>

\* df.dropna(how='all').dropna(axis=1, how='all'), reset_index
CleanDataframe(d) ==
    LET rows1 == SelectSeq(d.rows, LAMBDA r : \E c \in Range(d.columns) : ~r[c].na)
        cols1 == SelectSeq(d.columns,
                           LAMBDA c : \E i \in 1..Len(rows1) : ~rows1[i][c].na)
    IN  [columns |-> cols1,
         rows |-> [i \in 1..Len(rows1) |-> [c \in Range(cols1) |-> rows1[i][c]]]]

\* title_columns: "Title 1" .. "Title 5" that are columns of the sheet
TitleColumns(d) ==
    SelectSeq(<<"Title 1", "Title 2", "Title 3", "Title 4", "Title 5">>,
              LAMBDA c : c \in Range(d.columns))

\* del last_parent_at_level[l] for every l > level
ClearDeeperKeep(chain, level) == chain
ClearDeeper(chain, level) ==
    [l \in {k \in DOMAIN chain : k <= level} |-> chain[l]]

\* last_parent_at_level[level] = title_value, then the deeper levels cleared
SetLevel(chain, level, title_value) ==
    ClearDeeper([l \in DOMAIN chain \cup {level} |->
                    IF l = level THEN title_value ELSE chain[l]], level)

\* for level, title_col in enumerate(title_columns, 1): ...
RECURSIVE TitleScan(_, _, _, _)
TitleScan(row, tcs, level, acc) ==
    IF level > Len(tcs) THEN acc
    ELSE IF HasText(row[tcs[level]])
         THEN TitleScan(row, tcs, level + 1,
                        [primary_title |-> <<Strip(row[tcs[level]].v)>>,
                         hierarchy_level |-> level,
                         chain |-> SetLevel(acc.chain, level, Strip(row[tcs[level]].v))])
         ELSE TitleScan(row, tcs, level + 1, acc)

\* area_path_parts: the chain's titles for the levels 1..hierarchy_level it holds
AreaPathPartsShort(chain, hierarchy_level) ==
    LET lv == SelectSeq([i \in 1..(hierarchy_level - 1) |-> i],
                        LAMBDA l : l \in DOMAIN chain)
    IN  [i \in 1..Len(lv) |-> chain[lv[i]]]
AreaPathParts(chain, hierarchy_level) ==
    LET lv == SelectSeq([i \in 1..hierarchy_level |-> i], LAMBDA l : l \in DOMAIN chain)
    IN  [i \in 1..Len(lv) |-> chain[lv[i]]]

W(word) == <<word>>

TitleKeywords ==
    {<<"t", "i", "t", "l", "e">>, <<"n", "a", "m", "e">>,
     <<"p", "r", "o", "c", "e", "s", "s">>,
     <<"a", "c", "t", "i", "v", "i", "t", "y">>,
     <<"d", "e", "s", "c", "r", "i", "p", "t", "i", "o", "n">>}

DescKeywords ==
    {<<"d", "e", "s", "c", "r", "i", "p", "t", "i", "o", "n">>,
     <<"d", "e", "t", "a", "i", "l">>,
     <<"s", "u", "m", "m", "a", "r", "y">>, <<"n", "o", "t", "e">>}

\* any(keyword in col.lower() for keyword in keywords)
NameHasKeyword(col, keywords) ==
    \E k \in keywords : Contains(k, Lower(Spelling(col)))

\* the stripped text of the first of cols whose cell has text, as <<text>>, or <<>>
FirstText(row, cols) ==
    LET hit == SelectSeq(cols, LAMBDA c : HasText(row[c]))
    IN  IF hit = <<>> THEN <<>> ELSE <<Strip(row[hit[1]].v)>>

\* the title of a row no title column gave one: keyword columns, then any column
FallbackTitle(d, row) ==
    LET potential_title_cols ==
            SelectSeq(d.columns, LAMBDA c : NameHasKeyword(c, TitleKeywords))
        byKeyword == FirstText(row, potential_title_cols)
    IN  IF byKeyword # <<>> THEN byKeyword ELSE FirstText(row, d.columns)

\* type_mapping.get(excel_type, excel_type)
TypeMapping(excel_type) ==
    CASE excel_type = W("Story") -> W("User Story")
      [] excel_type = W("Issue") -> W("Bug")
      [] excel_type = W("Business Process") -> W("Epic")
      [] excel_type = W("Process Step") -> W("Feature")
      [] excel_type = W("Activity") -> W("User Story")
      [] excel_type = W("Sub-Activity") -> W("Task")
      [] OTHER -> excel_type

TypeCols == <<"Work Item Type", "Type", "Item Type", "WorkItemType">>

\* the type found in the type columns, 'User Story' when none is
ExcelType(d, row) ==
    LET hit == SelectSeq(TypeCols,
                         LAMBDA c : c \in Range(d.columns) /\ HasText(row[c]))
    IN  IF hit = <<>> THEN W("User Story") ELSE TypeMapping(Strip(row[hit[1]].v))

\* the hierarchy fallback of a type that is still the default
ItemTypeExplicitOnly(d, row, hierarchy_level) == ExcelType(d, row)
ItemType(d, row, hierarchy_level) ==
    IF ExcelType(d, row) = W("User Story")
    THEN CASE hierarchy_level = 1 -> W("Epic")
           [] hierarchy_level = 2 -> W("Feature")
           [] hierarchy_level = 3 -> W("User Story")
           [] OTHER -> W("Task")
    ELSE ExcelType(d, row)

\* state from the State column if available
ItemState(d, row) ==
    IF "State" \in Range(d.columns) /\ ~row["State"].na
    THEN Strip(row["State"].v) ELSE W("New")

\* sheet_name.lower().replace(' ', '-')
Slug(s) == [i \in 1..Len(s) |-> IF s[i] = Sp THEN "-" ELSE LowerChar(s[i])]

\* f"{model_id}_{sheet_name}_{idx}"
ItemId(model_id, sheet_name, i) ==
    model_id \o <<"_">> \o sheet_name \o <<"_">> \o IntToStr(i)

\* custom_fields: every cell with text under its column name, then 'Area Path'
CustomFields(d, row, area_path) ==
    LET filled == {c \in Range(d.columns) : HasText(row[c])}
    IN  [c \in filled \cup {"Area Path"} |->
            IF c = "Area Path" THEN area_path ELSE Strip(row[c].v)]

\* description: the first cell with text in a description-like column
Description(d, row) ==
    LET hit == FirstText(row, SelectSeq(d.columns,
                                        LAMBDA c : NameHasKeyword(c, DescKeywords)))
    IN  IF hit = <<>> THEN <<>> ELSE hit[1]

\* a key the item gets only when cond holds
Optional(key, cond, value) == IF cond THEN key :> value ELSE [k \in {} |-> k]

\* One iteration of the row loop of _convert_to_work_items: the chain after
\* the row and the items it appends (none when the row is skipped).
ConvertRow(d, sheet_name, model_id, i, chain) ==
    LET row == d.rows[i + 1]
        tcs == TitleColumns(d)
        has_content == \E c \in Range(d.columns) : HasText(row[c])
        scan == TitleScan(row, tcs, 1,
                          [primary_title |-> <<>>, hierarchy_level |-> 1,
                           chain |-> chain])
        hierarchy_level == scan.hierarchy_level
        area_path_parts ==
            IF tcs # <<>> THEN AreaPathParts(scan.chain, hierarchy_level) ELSE <<>>
        primary_title ==
            IF scan.primary_title # <<>> THEN scan.primary_title
            ELSE FallbackTitle(d, row)
        area_path ==
            IF area_path_parts # <<>> THEN Join(area_path_parts, <<Bs>>)
            ELSE sheet_name
        work_item ==
            [id |-> ItemId(model_id, sheet_name, i),
             title |-> primary_title[1],
             description |-> Description(d, row),
             type |-> ItemType(d, row, hierarchy_level),
             area_path |-> area_path,
             iteration_path |-> <<>>,
             priority |-> 2,
             state |-> ItemState(d, row),
             tags |-> <<"fasttrack-import;">> \o Slug(sheet_name)
                        \o <<";row-">> \o IntToStr(i),
             source_sheet |-> sheet_name,
             source_row |-> i,
             hierarchy_level |-> hierarchy_level,
             custom_fields |-> CustomFields(d, row, area_path)]
            @@ Optional("catalog_status",
                        "Catalog Status" \in Range(d.columns)
                            /\ ~row["Catalog Status"].na,
                        Strip(row["Catalog Status"].v))
            @@ Optional("process_sequence_id",
                        "Process sequence ID" \in Range(d.columns)
                            /\ ~row["Process sequence ID"].na,
                        Strip(row["Process sequence ID"].v))
    IN  IF ~has_content THEN [chain |-> chain, items |-> <<>>]
        ELSE IF primary_title = <<>> THEN [chain |-> scan.chain, items |-> <<>>]
        ELSE [chain |-> scan.chain, items |-> <<work_item>>]

\* _convert_to_work_items: the rows from index i on, in file order
RECURSIVE ScanRows(_, _, _, _, _, _)
ScanRows(d, sheet_name, model_id, i, chain, items) ==
    IF i >= Len(d.rows) THEN items
    ELSE LET step == ConvertRow(d, sheet_name, model_id, i, chain)
         IN  ScanRows(d, sheet_name, model_id, i + 1, step.chain,
                      items \o step.items)

EmptyChain == [l \in {} |-> <<>>]

ConvertToWorkItems(d, sheet_name, model_id) ==
    ScanRows(d, sheet_name, model_id, 0, EmptyChain, <<>>)

(***************************************************************************)
(* uuid.uuid4(): the n-th draw is a text never drawn before; its first     *)
(* eight characters are spelled by n, the rest is one word.                *)
(***************************************************************************)
Uuid4(n) == IntToStr(n) \o <<"-uuid4">>

\* str(uuid.uuid4())[:8]
First8(u) == SubSeq(u, 1, Len(u) - 1)

(***************************************************************************)
(* process_excel_file.  A workbook is a file name and its sheets in file   *)
(* order.  The stored model keeps the fields the operations read; the raw  *)
(* sheet data, process_hierarchy and the timestamps are written once and   *)
(* never read again, and are left out.                                     *)
(***************************************************************************)
\* for sheet_name, df in excel_data.items(): ...
RECURSIVE ProcessSheets(_, _, _, _)
ProcessSheets(sheets, i, model_id, acc) ==
    IF i > Len(sheets) THEN acc
    ELSE LET d == CleanDataframe(sheets[i].df)
             items == ConvertToWorkItems(d, sheets[i].name, model_id)
         IN  IF d.rows = <<>> \/ d.columns = <<>>
             THEN ProcessSheets(sheets, i + 1, model_id, acc)
             ELSE ProcessSheets(sheets, i + 1, model_id,
                    [work_items |-> acc.work_items \o items,
                     total_rows |-> acc.total_rows + Len(d.rows),
                     process_areas |-> Append(acc.process_areas, sheets[i].name),
                     work_item_types |-> acc.work_item_types
                                           \cup {items[k].type : k \in 1..Len(items)}])

ProcessExcelFile(workbook, model_id) ==
    LET acc == ProcessSheets(workbook.sheets, 1, model_id,
                             [work_items |-> <<>>, total_rows |-> 0,
                              process_areas |-> <<>>, work_item_types |-> {}])
    IN  [id |-> model_id,
         filename |-> workbook.filename,
         source |-> workbook.source,
         work_items |-> acc.work_items,
         summary |-> [total_sheets |-> Len(workbook.sheets),
                      total_rows |-> acc.total_rows,
                      process_areas |-> acc.process_areas,
                      work_item_types |-> acc.work_item_types]]

\* _save_model_data: the file of model_id is (over)written
SaveModelData(st, model_id, model_data) ==
    [m \in DOMAIN st \cup {model_id} |-> IF m = model_id THEN model_data ELSE st[m]]

\* get_model_data(model_id) is not None
Exists(st, model_id) == model_id \in DOMAIN st

(***************************************************************************)
(* Bulk mutator.  The keys priority, source_row and hierarchy_level hold   *)
(* integers and custom_fields holds a dictionary in every stored item: no  *)
(* operation writes to a key unless its value equals a request's text.     *)
(***************************************************************************)
IntKeys == {"priority", "source_row", "hierarchy_level"}

\* item[field_name] == old_value, for the text old_value of a request
TopEquals(item, field_name, value) ==
    /\ field_name \in DOMAIN item
    /\ field_name \notin IntKeys \cup {"custom_fields"}
    /\ item[field_name] = value

\* str(item[field_name]) == field_value; the repr of a dictionary is one word
TopStrEquals(item, field_name, value) ==
    /\ field_name \in DOMAIN item
    /\ (IF field_name \in IntKeys THEN IntToStr(item[field_name])
        ELSE IF field_name = "custom_fields" THEN W("{custom_fields}")
        ELSE item[field_name]) = value

CustomEquals(item, field_name, value) ==
    /\ field_name \in DOMAIN item.custom_fields
    /\ item.custom_fields[field_name] = value

\* the if / elif of bulk_replace_field_value on one item
ReplaceInItem(item, field_name, old_value, new_value) ==
    IF TopEquals(item, field_name, old_value)
    THEN [item EXCEPT ![field_name] = new_value]
    ELSE IF CustomEquals(item, field_name, old_value)
         THEN [item EXCEPT !.custom_fields[field_name] = new_value]
         ELSE item

ReplaceMatches(item, field_name, old_value) ==
    TopEquals(item, field_name, old_value) \/ CustomEquals(item, field_name, old_value)

\* unique_types: item.get('type', 'Unknown') of every item
TypesOfFirst(items) == IF items = <<>> THEN {} ELSE {items[1].type}
TypesOf(items) == {items[k].type : k \in 1..Len(items)}

\* bulk_replace_field_value on an existing model: the store and the response
BulkReplaceFieldValue(st, model_id, field_name, old_value, new_value) ==
    LET model_data == st[model_id]
        items == [k \in 1..Len(model_data.work_items) |->
                     ReplaceInItem(model_data.work_items[k], field_name,
                                   old_value, new_value)]
        replacement_count ==
            Cardinality({k \in 1..Len(model_data.work_items) :
                ReplaceMatches(model_data.work_items[k], field_name, old_value)})
        summary == IF field_name = "type"
                   THEN [model_data.summary EXCEPT !.work_item_types = TypesOf(items)]
                   ELSE model_data.summary
        updated == [model_data EXCEPT !.work_items = items, !.summary = summary]
    IN  [store |-> IF replacement_count > 0 THEN SaveModelData(st, model_id, updated)
                   ELSE st,
         replacement_count |-> replacement_count,
         updated_summary |-> summary]

\* the match of bulk_delete_items_by_field_value on one item
DeleteMatches(item, field_name, field_value) ==
    TopStrEquals(item, field_name, field_value)
        \/ CustomEquals(item, field_name, field_value)

\* bulk_delete_items_by_field_value on an existing model
BulkDeleteItemsByFieldValue(st, model_id, field_name, field_value) ==
    LET model_data == st[model_id]
        remaining_items == SelectSeq(model_data.work_items,
                               LAMBDA it : ~DeleteMatches(it, field_name, field_value))
        deleted_items == SelectSeq(model_data.work_items,
                               LAMBDA it : DeleteMatches(it, field_name, field_value))
        summary == [model_data.summary EXCEPT
                        !.work_item_types = TypesOf(remaining_items),
                        !.total_rows = Len(remaining_items)]
        updated == [model_data EXCEPT !.work_items = remaining_items,
                                      !.summary = summary]
    IN  [store |-> IF Len(deleted_items) > 0 THEN SaveModelData(st, model_id, updated)
                   ELSE st,
         deletion_count |-> Len(deleted_items),
         original_count |-> Len(model_data.work_items),
         remaining_count |-> Len(remaining_items),
         deleted_items |-> [k \in 1..Len(deleted_items) |->
                               [id |-> deleted_items[k].id,
                                title |-> deleted_items[k].title]],
         updated_summary |-> summary]

\* update_work_item_types on an existing model
UpdateWorkItemTypes(st, model_id, type_mapping) ==
    LET model_data == st[model_id]
        items == [k \in 1..Len(model_data.work_items) |->
                     IF model_data.work_items[k].type \in DOMAIN type_mapping
                     THEN [model_data.work_items[k] EXCEPT
                              !.type = type_mapping[model_data.work_items[k].type]]
                     ELSE model_data.work_items[k]]
        updated == [model_data EXCEPT !.work_items = items,
                                      !.summary.work_item_types = TypesOf(items)]
    IN  [store |-> SaveModelData(st, model_id, updated),
         updated_count |-> Cardinality({k \in 1..Len(items) :
                              model_data.work_items[k].type \in DOMAIN type_mapping})]

(***************************************************************************)
(* merge_models                                                            *)
(***************************************************************************)
\* item[key] = value
SetKey(item, key, value) == (key :> value) @@ item

\* item.get(key, default)
Get(item, key, default) == IF key \in DOMAIN item THEN item[key] ELSE default

\* models_data: the models of model_ids as loaded, in request order
LoadModels(st, model_ids) ==
    [i \in 1..Len(model_ids) |->
        [id |-> model_ids[i], data |-> st[model_ids[i]],
         filename |-> st[model_ids[i]].filename]]

\* the items of models_data in iteration order, each with its model's filename
RECURSIVE SourceItems(_, _)
SourceItems(models_data, i) ==
    IF i > Len(models_data) THEN <<>>
    ELSE [k \in 1..Len(models_data[i].data.work_items) |->
             [item |-> models_data[i].data.work_items[k],
              filename |-> models_data[i].filename]]
         \o SourceItems(models_data, i + 1)

\* the two nested loops of merge_models over the items, from position i on
RECURSIVE MergeItemsDropDup(_, _, _, _, _)
MergeItemsDropDup(pairs, i, work_item_ids, id_counter, merged) ==
    IF i > Len(pairs) THEN merged
    ELSE LET item == pairs[i].item
             original_id == Get(item, "ID", Get(item, "id", <<>>))
         IN  IF original_id \in work_item_ids \/ original_id = <<>>
             THEN MergeItemsDropDup(pairs, i + 1, work_item_ids, id_counter + 1, merged)
             ELSE MergeItemsDropDup(pairs, i + 1, work_item_ids \cup {original_id},
                      id_counter,
                      Append(merged, SetKey(item, "Source_Model", pairs[i].filename)))
RECURSIVE MergeItems(_, _, _, _, _)
MergeItems(pairs, i, work_item_ids, id_counter, merged) ==
    IF i > Len(pairs) THEN merged
    ELSE LET item == pairs[i].item
             original_id == Get(item, "ID", Get(item, "id", <<>>))
             new_id == <<"MERGED_">> \o Pad4(id_counter)
         IN  IF original_id \in work_item_ids \/ original_id = <<>>
             THEN MergeItems(pairs, i + 1, work_item_ids, id_counter + 1,
                      Append(merged,
                             SetKey(SetKey(SetKey(item, "ID", new_id),
                                           "Original_ID", original_id),
                                    "Source_Model", pairs[i].filename)))
             ELSE MergeItems(pairs, i + 1, work_item_ids \cup {original_id},
                      id_counter,
                      Append(merged, SetKey(item, "Source_Model", pairs[i].filename)))

\* the models the loading loop of merge_models has loaded when it meets the
\* first id without a stored model
LoadedBeforeMissing(st, model_ids) ==
    LET missing == {i \in 1..Len(model_ids) : ~Exists(st, model_ids[i])}
    IN  (CHOOSE i \in missing : \A j \in missing : i <= j) - 1

\* the values collected for the summary: the non-empty ones among vals
NonEmpty(vals) == {v \in vals : v # <<>>}

\* merged_model_id = str(uuid.uuid4())
MergedModelIdFirstSource(model_ids, n) == model_ids[1]
MergedModelId(model_ids, n) == Uuid4(n)

\* merged_model_data
MergedModelData(merged_model_id, merged_model_name, models_data) ==
    LET merged_work_items == MergeItems(SourceItems(models_data, 1), 1, {}, 1, <<>>)
        n == Len(merged_work_items)
        merged_area_paths ==
            NonEmpty({Get(merged_work_items[k].custom_fields, "Area Path",
                          Get(merged_work_items[k], "area_path", <<>>)) : k \in 1..n})
        merged_iterations ==
            NonEmpty({Get(merged_work_items[k].custom_fields, "Iteration Path",
                          Get(merged_work_items[k], "iteration", <<>>)) : k \in 1..n})
        merged_work_item_types ==
            NonEmpty({Get(merged_work_items[k], "Work Item Type",
                          Get(merged_work_items[k], "type", <<>>)) : k \in 1..n})
    IN  [id |-> merged_model_id,
         filename |-> merged_model_name,
         source |-> W("merged"),
         work_items |-> merged_work_items,
         summary |-> [total_rows |-> n,
                      unique_area_paths |-> Cardinality(merged_area_paths),
                      unique_iterations |-> Cardinality(merged_iterations),
                      unique_work_item_types |-> Cardinality(merged_work_item_types),
                      work_item_types |-> merged_work_item_types,
                      source_models |-> [i \in 1..Len(models_data) |->
                                            models_data[i].filename],
                      source_model_count |-> Len(models_data)]]

(***************************************************************************)
(* _build_tree_structure.  A node is the record the first pass builds plus *)
(* its children; all_nodes is a dictionary keyed by the item id, so it     *)
(* holds, per id, the node of the last item with that id, at the place of  *)
(* the first.                                                              *)
(***************************************************************************)
\* area_path.split('\\')
RECURSIVE Split(_)
Split(s) ==
    IF Bs \notin Range(s) THEN <<s>>
    ELSE LET i == CHOOSE k \in 1..Len(s) : s[k] = Bs /\ \A j \in 1..(k - 1) : s[j] # Bs
         IN  <<SubSeq(s, 1, i - 1)>> \o Split(SubSeq(s, i + 1, Len(s)))

\* '\\'.join(path_parts[:-1])
ParentPathWhole(area_path) == area_path
ParentPath(area_path) ==
    LET path_parts == Split(area_path)
    IN  Join(SubSeq(path_parts, 1, Len(path_parts) - 1), <<Bs>>)

\* the node of the first pass, without its children
Node(item) ==
    [id |-> item.id,
     title |-> Get(item, "title", W("Unknown")),
     type |-> Get(item, "type", W("Unknown")),
     state |-> Get(item, "state", W("New")),
     priority |-> Get(item, "priority", 2),
     area_path |-> Get(item.custom_fields, "Area Path", Get(item, "area_path", <<>>)),
     hierarchy_level |-> Get(item, "hierarchy_level", 1),
     description |-> Get(item, "description", <<>>),
     work_item_data |-> item,
     is_folder |-> FALSE]

\* all_nodes.values(): one node per id, in the order the ids first appear
AllNodes(items) ==
    LET firsts == SelectSeq([k \in 1..Len(items) |-> k],
                     LAMBDA k : \A j \in 1..(k - 1) : items[j].id # items[k].id)
        LastWith(k) == CHOOSE j \in 1..Len(items) :
                           /\ items[j].id = items[k].id
                           /\ \A l \in (j + 1)..Len(items) : items[l].id # items[k].id
    IN  [i \in 1..Len(firsts) |-> Node(items[LastWith(firsts[i])])]

\* the second pass on the node at position n: the position of the node it is
\* appended to, 0 when it becomes a root
ParentOf(all_nodes, n) ==
    LET area_path == all_nodes[n].area_path
        hit == {p \in 1..Len(all_nodes) :
                   /\ all_nodes[p].area_path = ParentPath(area_path)
                   /\ all_nodes[p].hierarchy_level = all_nodes[n].hierarchy_level - 1}
    IN  IF area_path # <<>> /\ Len(Split(area_path)) > 1 /\ hit # {}
        THEN CHOOSE p \in hit : \A q \in hit : p <= q
        ELSE 0

\* the node at position n with the nodes appended to it, in iteration order
RECURSIVE Subtree(_, _)
Subtree(all_nodes, n) ==
    LET kids == SelectSeq([p \in 1..Len(all_nodes) |-> p],
                          LAMBDA p : ParentOf(all_nodes, p) = n)
    IN  [node |-> all_nodes[n],
         children |-> [i \in 1..Len(kids) |-> Subtree(all_nodes, kids[i])]]

BuildTreeStructure(model_data) ==
    LET all_nodes == AllNodes(model_data.work_items)
        root_nodes == SelectSeq([p \in 1..Len(all_nodes) |-> p],
                                LAMBDA p : ParentOf(all_nodes, p) = 0)
    IN  [roots |-> [i \in 1..Len(root_nodes) |-> Subtree(all_nodes, root_nodes[i])],
         total_items |-> Len(model_data.work_items),
         total_folders |-> 0]

(***************************************************************************)
(* export_to_csv.  The file is its header and its rows; a column name is a *)
(* sequence, <<"Custom.", key>> for the column of a custom field.  The     *)
(* header is the fixed columns in their order and the custom columns as a  *)
(* set: their order is the insertion order of the dictionaries, which the  *)
(* model does not keep.  A cell the row has no value for is NaN in the     *)
(* DataFrame and the empty text in the file.                               *)
(***************************************************************************)
FixedColumns ==
    <<W("Title"), W("Work Item Type"), W("Description"), W("Area Path"),
      W("Iteration Path"), W("Priority"), W("State"), W("Tags")>>

\* the key of the item a fixed column is filled from
ItemKeyTitleOnly(column) == "title"
ItemKey(column) ==
    CASE column = W("Title") -> "title"
      [] column = W("Work Item Type") -> "type"
      [] column = W("Description") -> "description"
      [] column = W("Area Path") -> "area_path"
      [] column = W("Iteration Path") -> "iteration_path"
      [] column = W("Priority") -> "priority"
      [] column = W("State") -> "state"
      [] column = W("Tags") -> "tags"

\* csv_row: the cells of one item, the integer priority written by str
CsvRow(item) ==
    LET custom == {<<"Custom.", key>> : key \in DOMAIN item.custom_fields}
    IN  [column \in Range(FixedColumns) \cup custom |->
            IF column \in custom THEN item.custom_fields[column[2]]
            ELSE IF ItemKey(column) \in IntKeys THEN IntToStr(item[ItemKey(column)])
            ELSE item[ItemKey(column)]]

\* pd.DataFrame(csv_data).to_csv(...)
ExportToCsv(model_data) ==
    LET items == model_data.work_items
        csv_data == [k \in 1..Len(items) |-> CsvRow(items[k])]
        columns == UNION {DOMAIN csv_data[k] : k \in 1..Len(csv_data)}
    IN  [fixed |-> IF csv_data = <<>> THEN <<>> ELSE FixedColumns,
         custom |-> columns \ Range(FixedColumns),
         rows |-> [k \in 1..Len(csv_data) |->
                     [column \in columns |->
                         IF column \in DOMAIN csv_data[k] THEN csv_data[k][column]
                         ELSE <<>>]]]

\* raise HTTPException(status_code=404) / ValueError turned into 404
NotFoundAsOk(op) == [op |-> op, status |-> "ok", http |-> 200]
NotFound(op) == [op |-> op, status |-> "not_found", http |-> 404]

\* the two checks merge_models makes before it loads a model
MergeValidAnyName(model_ids, merged_model_name) == Len(model_ids) >= 2
MergeValid(model_ids, merged_model_name) ==
    Len(model_ids) >= 2 /\ Strip(merged_model_name) # <<>>

(***************************************************************************)
(* The sheets the scan is run on: up to MaxRows rows over three title      *)
(* columns, every cell NaN, blank or a title.  The cells of Title 3 are    *)
(* blank where those of the other columns are NaN.                         *)
(***************************************************************************)
ScanColumns == <<"Title 1", "Title 2", "Title 3">>

ScanCells(col) ==
    CASE col = "Title 1" -> {NaN, Cell(W("A")), Cell(W("C"))}
      [] col = "Title 2" -> {NaN, Cell(W("B"))}
      [] col = "Title 3" -> {Cell(W(Sp)), Cell(<<Sp, "A">>)}

ScanRowsOf == {r \in [Range(ScanColumns) -> UNION {ScanCells(c) : c \in Range(ScanColumns)}] :
                  \A c \in Range(ScanColumns) : r[c] \in ScanCells(c)}

\* the sheets of up to max_rows rows
ScanSheets(max_rows) ==
    UNION {{[columns |-> ScanColumns, rows |-> rs] : rs \in [1..n -> ScanRowsOf]}
              : n \in 1..max_rows}

ScanSheetName == W("S")
ScanModelId == First8(Uuid4(1))

\* the request handlers that may run at the same time, and none running
Handlers == {1, 2}
NoRequests == [h \in Handlers |-> [pc |-> "idle"]]

StoreIdle ==
    /\ store = [m \in {} |-> m]
    /\ exports = {}
    /\ uuid_count = 0
    /\ ops = 0
    /\ last = [op |-> "none"]
    /\ inflight = NoRequests

InitScan ==
    /\ StoreIdle
    /\ \E raw \in ScanSheets(MaxRows) : df = CleanDataframe(raw)
    /\ idx = 0
    /\ last_parent_at_level = EmptyChain
    /\ work_items = <<>>
    /\ row_seen = <<>>

\* for idx, row in df.iterrows(): one iteration
ScanRow ==
    /\ idx < Len(df.rows)
    /\ LET step == ConvertRow(df, ScanSheetName, ScanModelId, idx, last_parent_at_level)
       IN  /\ last_parent_at_level' = step.chain
           /\ work_items' = work_items \o step.items
    /\ row_seen' = <<df.rows[idx + 1]>>
    /\ idx' = idx + 1
    /\ UNCHANGED <<df, storeVars, inflight>>

NextScan == ScanRow

SpecScan == InitScan /\ [][NextScan]_vars

(***************************************************************************)
(* Properties of the scan                                                  *)
(***************************************************************************)
\* the deepest level whose title column holds text in the row, 0 when none
DeepestPopulated(row, tcs) ==
    LET pop == {l \in 1..Len(tcs) : HasText(row[tcs[l]])}
    IN  IF pop = {} THEN 0 ELSE CHOOSE l \in pop : \A k \in pop : k <= l

\* the chain's titles of the levels 1..k, joined by backslashes in level order
RECURSIVE ChainPath(_, _)
ChainPath(chain, k) ==
    IF k = 0 THEN <<>>
    ELSE LET up == ChainPath(chain, k - 1)
         IN  IF k \notin DOMAIN chain THEN up
             ELSE IF up = <<>> THEN chain[k] ELSE up \o <<Bs>> \o chain[k]

LastItem == work_items[Len(work_items)]

\* C1: a row whose deepest populated title column is level k yields a work
\* item with hierarchy_level k whose area_path is the backslash-join, in level
\* order, of the chain's titles for the levels 1..k as the chain stands right
\* after the row.
C1_LevelAndAreaPath ==
    (row_seen # <<>> /\ DeepestPopulated(row_seen[1], TitleColumns(df)) > 0) =>
        LET k == DeepestPopulated(row_seen[1], TitleColumns(df))
        IN  /\ work_items # <<>>
            /\ LastItem.source_row = idx - 1
            /\ LastItem.hierarchy_level = k
            /\ LastItem.area_path = ChainPath(last_parent_at_level, k)

C1_Witness ==
    /\ row_seen # <<>>
    /\ DeepestPopulated(row_seen[1], TitleColumns(df)) = 3
    /\ LastItem.hierarchy_level = 3
    /\ LastItem.area_path = <<"A", Bs, "B", Bs, "A">>

\* the row whose only title is text in column col (Title 3 is blank)
OnlyTitle(col, text) ==
    [c \in Range(ScanColumns) |->
        IF c = col THEN Cell(text) ELSE IF c = "Title 3" THEN Cell(W(Sp)) ELSE NaN]

\* the sheet  Title 1 = A / Title 2 = B / Title 1 = C  of the example
IsABCSheet ==
    /\ df.columns = ScanColumns
    /\ df.rows = <<OnlyTitle("Title 1", W("A")), OnlyTitle("Title 2", W("B")),
                   OnlyTitle("Title 1", W("C"))>>

\* C2: after a row whose deepest populated title level is L the chain holds
\* no entry at a level greater than L; and in the sheet A / B / C of the
\* example the third work item's area_path is exactly "C".
C2_NoStaleDeeper ==
    /\ (row_seen # <<>> /\ DeepestPopulated(row_seen[1], TitleColumns(df)) > 0) =>
           \A l \in DOMAIN last_parent_at_level :
               l <= DeepestPopulated(row_seen[1], TitleColumns(df))
    /\ (IsABCSheet /\ idx = 3) =>
           /\ Len(work_items) = 3
           /\ work_items[3].area_path = W("C")

C2_Witness ==
    /\ IsABCSheet
    /\ idx = 3
    /\ work_items[2].area_path = <<"A", Bs, "B">>
    /\ work_items[3].area_path = W("C")
    /\ DOMAIN last_parent_at_level = {1}

(***************************************************************************)
(* The requests served over the store                                      *)
(***************************************************************************)
BookColumns == <<"Title 1", "Title 2", "Type", "type", "Area Path">>

\* the row with the given cells, NaN elsewhere
MkRow(cells) ==
    [c \in Range(BookColumns) |-> IF c \in DOMAIN cells THEN Cell(cells[c]) ELSE NaN]

\* the first row of a sheet: a level-1 title with a custom column named like
\* the attribute type, with or without a literal Area Path column
FirstRows ==
    {MkRow(("Title 1" :> W("A")) @@ ("type" :> W("Epic")) @@ ("Area Path" :> W("X"))),
     MkRow(("Title 1" :> W("C")) @@ ("type" :> W("Task")))}

\* the second row: all NaN, blank, or a level-2 title with an explicit type
SecondRows ==
    {MkRow([c \in {} |-> c]),
     MkRow("Title 2" :> W(Sp)),
     MkRow(("Title 2" :> W("B")) @@ ("Type" :> W("Task")))}

\* the uploaded workbooks: one sheet of two rows
Workbooks ==
    {[filename |-> W("book.xlsx"), source |-> W("upload"),
      sheets |-> <<[name |-> W("S"),
                    df |-> [columns |-> BookColumns, rows |-> <<r1, r2>>]]>>]
        : r1 \in FirstRows, r2 \in SecondRows}

MissingId == W("missing")
Z == W("Z")

Fields == {"id", "type", "Area Path", "priority", "iteration_path"}

\* the text a request would compare the field of the item with, as <<text>>
FieldText(item, field_name) ==
    IF field_name \in DOMAIN item
    THEN <<IF field_name \in IntKeys THEN IntToStr(item[field_name])
           ELSE item[field_name]>>
    ELSE IF field_name \in DOMAIN item.custom_fields
         THEN <<item.custom_fields[field_name]>>
         ELSE <<>>

\* the values the items of the model resolve the field to
Resolved(st, model_id, field_name) ==
    IF Exists(st, model_id)
    THEN LET items == st[model_id].work_items
         IN  {FieldText(items[k], field_name)[1] :
                 k \in {j \in 1..Len(items) : FieldText(items[j], field_name) # <<>>}}
    ELSE {}

\* the values a request may search a field for: those the items of the model
\* hold under that name, as an attribute or as a custom field, and Z
Values(st, model_id, field_name) ==
    {Z} \cup Resolved(st, model_id, field_name) \cup
    (IF Exists(st, model_id)
     THEN LET items == st[model_id].work_items
          IN  {items[k].custom_fields[field_name] :
                  k \in {j \in 1..Len(items) :
                            field_name \in DOMAIN items[j].custom_fields}}
     ELSE {})

\* the values a request may write: a value the field resolves to, or Z
NewValues(st, model_id, field_name) == {Z} \cup Resolved(st, model_id, field_name)

TypeMappings ==
    {[t \in {W("Task")} |-> W("Bug")],
     [t \in {W("Epic"), W("Feature")} |-> IF t = W("Epic") THEN W("Feature") ELSE W("Epic")]}

\* the ids a request may name: of a stored model, of the model the previous
\* request deleted, or never created
RequestIds ==
    DOMAIN store \cup {MissingId}
        \cup (IF last.op = "delete_model" /\ last.status = "ok"
              THEN {last.model_id} ELSE {})

MergeIdLists == UNION {[1..n -> RequestIds] : n \in 1..MaxMergeIds}

MergeNames == {W(Sp), W("M")}

Init ==
    /\ StoreIdle
    /\ df = [columns |-> <<>>, rows |-> <<>>]
    /\ idx = 0
    /\ last_parent_at_level = EmptyChain
    /\ work_items = <<>>
    /\ row_seen = <<>>

\* upload_file / download: process_excel_file on a workbook
Ingest ==
    /\ ops < MaxOps
    /\ \E workbook \in Workbooks :
          LET model_id == First8(Uuid4(uuid_count + 1))
          IN  /\ store' = SaveModelData(store, model_id,
                                        ProcessExcelFile(workbook, model_id))
              /\ last' = [op |-> "ingest", status |-> "ok", model_id |-> model_id]
    /\ uuid_count' = uuid_count + 1
    /\ ops' = ops + 1
    /\ UNCHANGED <<exports, scanVars, inflight>>

\* POST /api/models/{model_id}/replace-field-value
Replace ==
    /\ ops < MaxOps
    /\ \E model_id \in RequestIds, field_name \in Fields :
       \E old_value \in Values(store, model_id, field_name),
          new_value \in NewValues(store, model_id, field_name) :
          IF Exists(store, model_id)
          THEN LET r == BulkReplaceFieldValue(store, model_id, field_name,
                                              old_value, new_value)
               IN  /\ store' = r.store
                   /\ last' = [op |-> "replace", status |-> "ok",
                               model_id |-> model_id, field_name |-> field_name,
                               old_value |-> old_value, new_value |-> new_value,
                               replacement_count |-> r.replacement_count]
          ELSE /\ store' = store
               /\ last' = NotFound("replace") @@ [model_id |-> model_id]
    /\ ops' = ops + 1
    /\ UNCHANGED <<exports, uuid_count, scanVars, inflight>>

\* POST /api/models/{model_id}/delete-by-field-value
Delete ==
    /\ ops < MaxOps
    /\ \E model_id \in RequestIds, field_name \in Fields :
       \E field_value \in Values(store, model_id, field_name) :
          IF Exists(store, model_id)
          THEN LET r == BulkDeleteItemsByFieldValue(store, model_id, field_name,
                                                    field_value)
               IN  /\ store' = r.store
                   /\ last' = [op |-> "delete", status |-> "ok",
                               model_id |-> model_id, field_name |-> field_name,
                               field_value |-> field_value,
                               loaded |-> store[model_id].work_items,
                               deletion_count |-> r.deletion_count,
                               original_count |-> r.original_count,
                               remaining_count |-> r.remaining_count,
                               deleted_items |-> r.deleted_items]
          ELSE /\ store' = store
               /\ last' = NotFound("delete") @@ [model_id |-> model_id]
    /\ ops' = ops + 1
    /\ UNCHANGED <<exports, uuid_count, scanVars, inflight>>

\* POST /api/models/{model_id}/update-work-item-types
UpdateTypes ==
    /\ ops < MaxOps
    /\ \E model_id \in RequestIds, type_mapping \in TypeMappings :
          IF Exists(store, model_id)
          THEN LET r == UpdateWorkItemTypes(store, model_id, type_mapping)
               IN  /\ store' = r.store
                   /\ last' = [op |-> "update_types", status |-> "ok",
                               model_id |-> model_id,
                               updated_count |-> r.updated_count]
          ELSE /\ store' = store
               /\ last' = NotFound("update_types") @@ [model_id |-> model_id]
    /\ ops' = ops + 1
    /\ UNCHANGED <<exports, uuid_count, scanVars, inflight>>

\* DELETE /api/models/{model_id}
DeleteModel ==
    /\ ops < MaxOps
    /\ \E model_id \in RequestIds :
          IF Exists(store, model_id)
          THEN /\ store' = [m \in DOMAIN store \ {model_id} |-> store[m]]
               /\ exports' = exports \ {model_id}
               /\ last' = [op |-> "delete_model", status |-> "ok",
                           model_id |-> model_id]
          ELSE /\ UNCHANGED <<store, exports>>
               /\ last' = NotFound("delete_model") @@ [model_id |-> model_id]
    /\ ops' = ops + 1
    /\ UNCHANGED <<uuid_count, scanVars, inflight>>

\* POST /api/models/merge
Merge ==
    /\ ops < MaxOps
    /\ \E model_ids \in MergeIdLists, merged_model_name \in MergeNames :
          IF ~MergeValid(model_ids, merged_model_name)
          THEN /\ UNCHANGED <<store, uuid_count>>
               /\ last' = [op |-> "merge", status |-> "invalid", http |-> 400,
                           model_ids |-> model_ids,
                           merged_model_name |-> merged_model_name,
                           models_loaded |-> 0]
          ELSE IF \E i \in 1..Len(model_ids) : ~Exists(store, model_ids[i])
          THEN /\ UNCHANGED <<store, uuid_count>>
               /\ last' = NotFound("merge") @@
                          [model_ids |-> model_ids,
                           merged_model_name |-> merged_model_name,
                           models_loaded |-> LoadedBeforeMissing(store, model_ids)]
          ELSE LET models_data == LoadModels(store, model_ids)
                   merged_model_id == MergedModelId(model_ids, uuid_count + 1)
               IN  /\ store' = SaveModelData(store, merged_model_id,
                                   MergedModelData(merged_model_id,
                                                   merged_model_name, models_data))
                   /\ uuid_count' = uuid_count + 1
                   /\ last' = [op |-> "merge", status |-> "ok",
                               model_ids |-> model_ids,
                               models_loaded |-> Len(model_ids),
                               merged_model_id |-> merged_model_id,
                               merged_model_name |-> merged_model_name,
                               models_data |-> models_data]
    /\ ops' = ops + 1
    /\ UNCHANGED <<exports, scanVars, inflight>>

\* GET /api/models/{model_id}/tree
Tree ==
    /\ ops < MaxOps
    /\ \E model_id \in RequestIds :
          IF Exists(store, model_id)
          THEN last' = [op |-> "tree", status |-> "ok", model_id |-> model_id,
                        tree |-> BuildTreeStructure(store[model_id])]
          ELSE last' = NotFound("tree") @@ [model_id |-> model_id]
    /\ ops' = ops + 1
    /\ UNCHANGED <<store, exports, uuid_count, scanVars, inflight>>

\* GET /api/models/{model_id}/export/csv; the ValueError of export_to_csv for
\* a model that is not found reaches the client as status 500
Export ==
    /\ ops < MaxOps
    /\ \E model_id \in RequestIds :
          IF Exists(store, model_id)
          THEN /\ exports' = exports \cup {model_id}
               /\ last' = [op |-> "export", status |-> "ok", model_id |-> model_id,
                           csv |-> ExportToCsv(store[model_id])]
          ELSE /\ exports' = exports
               /\ last' = [NotFound("export") EXCEPT !.http = 500]
                              @@ [model_id |-> model_id]
    /\ ops' = ops + 1
    /\ UNCHANGED <<store, uuid_count, scanVars, inflight>>

Next ==
    Ingest \/ Replace \/ Delete \/ UpdateTypes \/ DeleteModel \/ Merge
        \/ Tree \/ Export

Spec == Init /\ [][Next]_vars

(***************************************************************************)
(* Properties of the stored models                                         *)
(***************************************************************************)
ItemsOf(m) == store[m].work_items

Distinct(items) ==
    \A i, j \in 1..Len(items) : i # j => items[i].id # items[j].id

\* C3: in every stored model every work item has the key 'Area Path' in
\* custom_fields, and its value equals the item's area_path.
C3_AreaPathMirrored ==
    \A m \in DOMAIN store : \A k \in 1..Len(ItemsOf(m)) :
        /\ "Area Path" \in DOMAIN ItemsOf(m)[k].custom_fields
        /\ ItemsOf(m)[k].custom_fields["Area Path"] = ItemsOf(m)[k].area_path

\* C4: in every model produced by ingest, also after Replace and Delete
\* requests on it, the ids of the work items are pairwise distinct.
C4_IngestedIdsDistinct ==
    \A m \in DOMAIN store : store[m].source # W("merged") => Distinct(ItemsOf(m))

LastMergeOk ==
    /\ last.op = "merge"
    /\ last.status = "ok"
    /\ last.merged_model_id \in DOMAIN store

\* C5: in a merge, scanning the items in source order, the first item with a
\* given non-empty id keeps it, and every item whose id is empty or already
\* used gets the id MERGED_%04d of its rank among the reassigned items and
\* keeps the displaced id in Original_ID.
C5_MergeReassignsIds ==
    LastMergeOk =>
        LET src == SourceItems(last.models_data, 1)
            out == ItemsOf(last.merged_model_id)
            Reassigned(i) ==
                \/ src[i].item.id = <<>>
                \/ \E j \in 1..(i - 1) : src[j].item.id = src[i].item.id
            Rank(i) == Cardinality({j \in 1..i : Reassigned(j)})
        IN  /\ Len(out) = Len(src)
            /\ \A i \in 1..Len(src) :
                  IF Reassigned(i)
                  THEN /\ out[i].id = <<"MERGED_">> \o Pad4(Rank(i))
                       /\ Get(out[i], "Original_ID", <<"none">>) = src[i].item.id
                  ELSE out[i].id = src[i].item.id

\* C6: in every model produced by a merge the ids of the work items are
\* pairwise distinct.
C6_MergedIdsDistinct ==
    \A m \in DOMAIN store : store[m].source = W("merged") => Distinct(ItemsOf(m))

\* the number of work items of the first n source models of the last merge
RECURSIVE SourceCount(_)
SourceCount(n) ==
    IF n = 0 THEN 0 ELSE SourceCount(n - 1) + Len(ItemsOf(last.model_ids[n]))

\* an item without the keys a merge adds
Untagged(item) ==
    [k \in DOMAIN item \ {"ID", "Original_ID", "Source_Model"} |-> item[k]]

\* C7: the merged work item list is the concatenation of the sources' lists
\* in request order, each item tagged with the display name of its source,
\* and total_rows is the sum of the sources' work item counts.
C7_MergeConcatenates ==
    LastMergeOk =>
        LET out == ItemsOf(last.merged_model_id)
            n == Len(last.model_ids)
        IN  /\ Len(out) = SourceCount(n)
            /\ store[last.merged_model_id].summary.total_rows = SourceCount(n)
            /\ \A s \in 1..n : \A k \in 1..Len(ItemsOf(last.model_ids[s])) :
                  /\ Untagged(out[SourceCount(s - 1) + k])
                        = Untagged(ItemsOf(last.model_ids[s])[k])
                  /\ out[SourceCount(s - 1) + k].Source_Model
                        = store[last.model_ids[s]].filename

C7_Witness ==
    /\ LastMergeOk
    /\ last.model_ids[1] # last.model_ids[2]
    /\ Len(ItemsOf(last.model_ids[1])) = 2
    /\ Len(ItemsOf(last.model_ids[2])) = 1
    /\ Len(ItemsOf(last.merged_model_id)) = 3
    /\ store[last.merged_model_id].summary.total_rows = 3

\* C8: a merge request, successful or failed, leaves every stored model as it
\* was; a successful one adds exactly one model, under an id not in the store
\* before, with source "merged"; a failed one adds none.
C8_MergeLeavesSources ==
    [][(last'.op = "merge" /\ ops' = ops + 1) =>
          /\ \A m \in DOMAIN store : m \in DOMAIN store' /\ store'[m] = store[m]
          /\ IF last'.status = "ok"
             THEN /\ Cardinality(DOMAIN store' \ DOMAIN store) = 1
                  /\ \A m \in DOMAIN store' \ DOMAIN store :
                        store'[m].source = W("merged")
             ELSE store' = store]_vars

C8_Witness ==
    /\ LastMergeOk
    /\ Cardinality(DOMAIN store) = 3
    /\ \A i \in 1..Len(last.model_ids) :
          store[last.model_ids[i]] = last.models_data[i].data
    /\ store[last.merged_model_id].source = W("merged")
    /\ Len(ItemsOf(last.merged_model_id)) > 0

\* C9: when Replace(field, old, new) is served twice in a row on a model, the
\* second call returns replacement_count 0.  Stated for old # new: with
\* old = new every call finds the same items again, whatever the code does.
C9_ReplaceIdempotent ==
    [][(/\ last.op = "replace" /\ last.status = "ok"
        /\ last'.op = "replace" /\ last'.status = "ok"
        /\ ops' = ops + 1
        /\ last'.model_id = last.model_id
        /\ last'.field_name = last.field_name
        /\ last'.old_value = last.old_value
        /\ last'.new_value = last.new_value
        /\ last.old_value # last.new_value)
          => last'.replacement_count = 0]_vars

\* C10: Delete(field, value) leaves exactly the items whose field differs
\* from value, in their order, returns the (id, title) pairs of exactly the
\* items whose field equals value, and original_count = deletion_count +
\* remaining_count; deleting type = T from N items of which M have type T
\* leaves N - M items.
C10_DeletePartitions ==
    (last.op = "delete" /\ last.status = "ok") =>
        LET Hit(it) == FieldText(it, last.field_name) = <<last.field_value>>
            gone == SelectSeq(last.loaded, Hit)
        IN  /\ ItemsOf(last.model_id) = SelectSeq(last.loaded, LAMBDA it : ~Hit(it))
            /\ last.deleted_items =
                  [k \in 1..Len(gone) |-> [id |-> gone[k].id, title |-> gone[k].title]]
            /\ last.original_count = last.deletion_count + last.remaining_count
            /\ last.field_name = "type" =>
                  Len(ItemsOf(last.model_id)) =
                      Len(last.loaded)
                        - Cardinality({k \in 1..Len(last.loaded) :
                                          last.loaded[k].type = last.field_value})

(***************************************************************************)
(* Properties of the field lookup and of the error paths                   *)
(***************************************************************************)
\* the served request of a step was a successful Replace or Delete
MutatorStep(op) ==
    /\ ops' = ops + 1
    /\ last'.op = op
    /\ last'.status = "ok"

\* the item holds the name both as an attribute and as a custom field
Collides(item, field_name) ==
    field_name \in DOMAIN item /\ field_name \in DOMAIN item.custom_fields

\* C11: when the field name of a Replace or Delete is both an attribute and a
\* custom_fields key of an item, only the attribute is compared and modified:
\* Replace leaves the item's custom_fields as they were and changes the item
\* only if the attribute equals the searched value, and Delete removes the
\* item only if the attribute equals the searched value.
C11_TopLevelPrecedence ==
    [][/\ MutatorStep("replace") =>
            LET before == store[last'.model_id].work_items
                after == store'[last'.model_id].work_items
            IN  \A k \in 1..Len(before) :
                    Collides(before[k], last'.field_name) =>
                        /\ after[k].custom_fields = before[k].custom_fields
                        /\ after[k] # before[k] =>
                              FieldText(before[k], last'.field_name)
                                  = <<last'.old_value>>
       /\ MutatorStep("delete") =>
            LET before == store[last'.model_id].work_items
                after == store'[last'.model_id].work_items
            IN  \A k \in 1..Len(before) :
                    (/\ Collides(before[k], last'.field_name)
                     /\ FieldText(before[k], last'.field_name)
                            # <<last'.field_value>>) =>
                        \E j \in 1..Len(after) : after[j] = before[k]]_vars

\* C12: a merge request with fewer than 2 model ids, or with a name that is
\* blank after trimming, is rejected as invalid before any model is loaded,
\* and the store is left as it was.
C12_MergeValidatedFirst ==
    [][(/\ ops' = ops + 1
        /\ last'.op = "merge"
        /\ \/ Len(last'.model_ids) < 2
           \/ Strip(last'.merged_model_name) = <<>>)
          => /\ last'.status = "invalid"
             /\ last'.models_loaded = 0
             /\ store' = store
             /\ uuid_count' = uuid_count]_vars

C12_Witness ==
    /\ last.op = "merge"
    /\ last.status = "invalid"
    /\ Len(last.model_ids) = 2
    /\ \A i \in 1..2 : last.model_ids[i] \in DOMAIN store
    /\ last.merged_model_name = W(Sp)
    /\ last.models_loaded = 0

\* C13: Replace, Delete, CSV export, tree reconstruction and the type-mapping
\* update on a model id without a stored model, and a valid Merge naming at
\* least one such id, fail with not_found and leave the store (and the
\* export files) as they were; the Merge persists no model.
C13_NotFoundLeavesStore ==
    [][ops' = ops + 1 =>
          /\ (/\ last'.op \in {"replace", "delete", "export", "tree", "update_types"}
              /\ last'.model_id \notin DOMAIN store)
                => /\ last'.status = "not_found"
                   /\ store' = store
                   /\ exports' = exports
          /\ (/\ last'.op = "merge"
              /\ Len(last'.model_ids) >= 2
              /\ Strip(last'.merged_model_name) # <<>>
              /\ \E i \in 1..Len(last'.model_ids) :
                    last'.model_ids[i] \notin DOMAIN store)
                => /\ last'.status = "not_found"
                   /\ store' = store
                   /\ uuid_count' = uuid_count]_vars

C13_Witness ==
    /\ last.op = "merge"
    /\ last.status = "not_found"
    /\ last.model_ids[1] \in DOMAIN store
    /\ last.model_ids[2] \notin DOMAIN store
    /\ last.models_loaded = 1
    /\ Cardinality(DOMAIN store) = 1

\* C14: a Replace or Delete whose searched value no work item's field
\* resolves to leaves the stored model identical to what it was.
C14_NoMatchNoWrite ==
    [][/\ (/\ MutatorStep("replace")
           /\ \A k \in 1..Len(store[last'.model_id].work_items) :
                 FieldText(store[last'.model_id].work_items[k], last'.field_name)
                     # <<last'.old_value>>)
             => store'[last'.model_id] = store[last'.model_id]
       /\ (/\ MutatorStep("delete")
           /\ \A k \in 1..Len(store[last'.model_id].work_items) :
                 FieldText(store[last'.model_id].work_items[k], last'.field_name)
                     # <<last'.field_value>>)
             => store'[last'.model_id] = store[last'.model_id]]_vars

(***************************************************************************)
(* Properties of the tree and of the export                                *)
(***************************************************************************)
LastTreeOk == last.op = "tree" /\ last.status = "ok"

\* the work items of the nodes of a forest, parents before children
RECURSIVE NodeItems(_)
NodeItems(trees) ==
    IF trees = <<>> THEN <<>>
    ELSE <<Head(trees).node.work_item_data>> \o NodeItems(Head(trees).children)
             \o NodeItems(Tail(trees))

\* the pairs <<parent, item>> of a forest under parent; parent is <<>> for a
\* root and <<the parent's work item>> for a child
RECURSIVE Edges(_, _)
Edges(parent, trees) ==
    IF trees = <<>> THEN {}
    ELSE {<<parent, Head(trees).node.work_item_data>>}
            \cup Edges(<<Head(trees).node.work_item_data>>, Head(trees).children)
            \cup Edges(parent, Tail(trees))

\* the parent the rule gives item i of items: <<>> or <<the first item, in the
\* order of the list, one level up whose area path is the parent path>>
RuleParent(items, i) ==
    LET P == Node(items[i]).area_path
        hit == {j \in 1..Len(items) :
                   /\ Node(items[j]).area_path = ParentPath(P)
                   /\ Node(items[j]).hierarchy_level
                          = Node(items[i]).hierarchy_level - 1}
    IN  IF P = <<>> \/ Len(Split(P)) = 1 \/ hit = {} THEN <<>>
        ELSE <<items[CHOOSE j \in hit : \A q \in hit : j <= q]>>

\* C15: in the reconstructed tree every work item's node hangs under the node
\* of the first work item, in the order of the list, whose area path is the
\* item's area path without its last segment and whose level is one less;
\* it is a root when there is none or the path has at most one segment.
C15_ParentResolution ==
    LastTreeOk =>
        \A i \in 1..Len(ItemsOf(last.model_id)) :
            <<RuleParent(ItemsOf(last.model_id), i), ItemsOf(last.model_id)[i]>>
                \in Edges(<<>>, last.tree.roots)

\* C16: the reconstructed tree has exactly one node per work item of the
\* model: as many nodes as total_items, which is the number of work items,
\* and every work item is the item of a node.
C16_OneNodePerItem ==
    LastTreeOk =>
        /\ last.tree.total_items = Len(ItemsOf(last.model_id))
        /\ Len(NodeItems(last.tree.roots)) = last.tree.total_items
        /\ \A i \in 1..Len(ItemsOf(last.model_id)) :
              ItemsOf(last.model_id)[i] \in Range(NodeItems(last.tree.roots))

\* C17: in every model produced by ingest, also after Replace, Delete and
\* type-mapping requests on it, summary.work_item_types, as a set, is the set
\* of the types of the model's work items; after a Delete of type = "Task"
\* the value "Task" is in work_item_types iff a remaining item has that type.
C17_TypesSummary ==
    /\ \A m \in DOMAIN store :
          store[m].source # W("merged") =>
              store[m].summary.work_item_types
                  = {ItemsOf(m)[k].type : k \in 1..Len(ItemsOf(m))}
    /\ (/\ last.op = "delete" /\ last.status = "ok"
        /\ last.field_name = "type" /\ last.field_value = W("Task"))
          => (W("Task") \in store[last.model_id].summary.work_item_types
                <=> \E k \in 1..Len(ItemsOf(last.model_id)) :
                        ItemsOf(last.model_id)[k].type = W("Task"))

C17_Witness ==
    /\ last.op = "delete" /\ last.status = "ok"
    /\ last.field_name = "type" /\ last.field_value = W("Task")
    /\ last.deletion_count = 1
    /\ Len(ItemsOf(last.model_id)) = 1
    /\ store[last.model_id].summary.work_item_types = {W("Epic")}

\* C18: in every model produced by ingest, also after Replace and Delete
\* requests on it, summary.total_rows is the number of its work items.
C18_TotalRowsCountsItems ==
    \A m \in DOMAIN store :
        store[m].source # W("merged") =>
            store[m].summary.total_rows = Len(ItemsOf(m))

LastExportOk == last.op = "export" /\ last.status = "ok"

\* C19: the export has one row per work item, in order, whose Title, Work
\* Item Type and Area Path cells are the item's title, type and area_path,
\* and a column Custom.<key> for every custom-field key of every item.
C19_ExportRows ==
    LastExportOk =>
        LET items == ItemsOf(last.model_id)
        IN  /\ Len(last.csv.rows) = Len(items)
            /\ \A k \in 1..Len(items) :
                  /\ last.csv.rows[k][W("Title")] = items[k].title
                  /\ last.csv.rows[k][W("Work Item Type")] = items[k].type
                  /\ last.csv.rows[k][W("Area Path")] = items[k].area_path
                  /\ \A key \in DOMAIN items[k].custom_fields :
                        <<"Custom.", key>> \in last.csv.custom

C19_Witness ==
    /\ LastExportOk
    /\ Len(last.csv.rows) = 2
    /\ last.csv.rows[1][W("Work Item Type")] = W("Epic")
    /\ last.csv.rows[2][W("Area Path")] = <<"A", Bs, "B">>
    /\ last.csv.rows[2][<<"Custom.", "type">>] = <<>>
    /\ <<"Custom.", "Type">> \in last.csv.custom
    /\ last.model_id \in exports

(***************************************************************************)
(* The frame of one row of the scan                                        *)
(***************************************************************************)
\* C20: a row whose deepest populated title level is L changes the chain only
\* by setting entry L to the row's title and deleting the entries above L:
\* the entries below L stay as they were.
C20_ChainFrame ==
    [][(idx' = idx + 1 /\ DeepestPopulated(df.rows[idx + 1], TitleColumns(df)) > 0) =>
          LET L == DeepestPopulated(df.rows[idx + 1], TitleColumns(df))
          IN  /\ L \in DOMAIN last_parent_at_level'
              /\ last_parent_at_level'[L]
                    = Strip(df.rows[idx + 1][TitleColumns(df)[L]].v)
              /\ \A l \in DOMAIN last_parent_at_level' : l <= L
              /\ \A l \in 1..(L - 1) :
                    /\ l \in DOMAIN last_parent_at_level'
                          <=> l \in DOMAIN last_parent_at_level
                    /\ l \in DOMAIN last_parent_at_level =>
                          last_parent_at_level'[l] = last_parent_at_level[l]]_vars

(***************************************************************************)
(* The sheets the normalizer is run on: up to MaxNormRows rows over four   *)
(* title columns and the columns Name, Type and State.  An empty title     *)
(* cell is blank, an empty cell of the other columns is NaN.               *)
(***************************************************************************)
NormColumns ==
    <<"Title 1", "Title 2", "Title 3", "Title 4", "Name", "Type", "State">>

NormTitles == <<W("A"), W("B"), W("C"), W("D")>>

\* the row with the given cells; elsewhere blank (title columns) or NaN
NormRow(cells) ==
    [c \in Range(NormColumns) |->
        IF c \in DOMAIN cells THEN Cell(cells[c])
        ELSE IF c \in Range(TitleColumns([columns |-> NormColumns])) THEN Cell(W(Sp))
        ELSE NaN]

NoCells == [c \in {} |-> c]

\* the rows with one title, at the level l, and a Type cell
TypedRows ==
    {NormRow((NormColumns[l] :> NormTitles[l]) @@ t) :
        l \in 1..4,
        t \in {NoCells, "Type" :> W(Sp), "Type" :> <<Sp, "Story">>,
               "Type" :> W("Issue"), "Type" :> W("Odd")}}

\* the rows with a level-1 title and a State cell
StatedRows ==
    {NormRow(("Title 1" :> W("A")) @@ ("State" :> s)) :
        s \in {W(Sp), <<Sp, "Done", Sp>>}}

\* the rows without a title: a name, a type or a state only
UntitledRows ==
    {NormRow(cells) : cells \in {"Name" :> W("N"), "Type" :> W("Issue"),
                                 ("Name" :> W(Sp)) @@ ("State" :> W("Done"))}}

NormRowsOf == TypedRows \cup StatedRows \cup UntitledRows

\* the sheets of up to max_rows rows
NormSheets(max_rows) ==
    UNION {{[columns |-> NormColumns, rows |-> rs] : rs \in [1..n -> NormRowsOf]}
              : n \in 1..max_rows}

InitNorm ==
    /\ StoreIdle
    /\ \E raw \in NormSheets(MaxNormRows) : df = CleanDataframe(raw)
    /\ idx = 0
    /\ last_parent_at_level = EmptyChain
    /\ work_items = <<>>
    /\ row_seen = <<>>

SpecNorm == InitNorm /\ [][NextScan]_vars

(***************************************************************************)
(* Properties of the normalizer                                            *)
(***************************************************************************)
\* the row just iterated has text in some cell
SeenContent ==
    /\ row_seen # <<>>
    /\ \E c \in Range(df.columns) : HasText(row_seen[1][c])

\* the row just iterated has text in no title column, and text elsewhere
SeenUntitled ==
    /\ SeenContent
    /\ DeepestPopulated(row_seen[1], TitleColumns(df)) = 0

\* C21: a non-empty row with no positional title column populated yields an
\* item whose title T is the fallback title and whose hierarchy_level is 1,
\* and is then handled like a level-1 row: the chain's entry 1 becomes T, the
\* deeper entries are discarded and the item's area_path equals T.
C21_FallbackRowIsLevelOne ==
    SeenUntitled =>
        /\ work_items # <<>>
        /\ LastItem.source_row = idx - 1
        /\ LastItem.title = FallbackTitle(df, row_seen[1])[1]
        /\ LastItem.hierarchy_level = 1
        /\ DOMAIN last_parent_at_level = {1}
        /\ last_parent_at_level[1] = LastItem.title
        /\ LastItem.area_path = LastItem.title

\* the Type cell of the row just iterated holds text
SeenTyped ==
    /\ SeenContent
    /\ "Type" \in Range(df.columns)
    /\ HasText(row_seen[1]["Type"])

\* the alias table on the type values of the sheets
AliasImage(t) ==
    CASE t = W("Story") -> W("User Story")
      [] t = W("Issue") -> W("Bug")
      [] OTHER -> t

\* Epic, Feature, User Story, Task for the levels 1, 2, 3 and 4 or deeper
LevelType(level) ==
    IF level = 1 THEN W("Epic")
    ELSE IF level = 2 THEN W("Feature")
    ELSE IF level = 3 THEN W("User Story") ELSE W("Task")

\* C22: the item's type is the alias-table image of the row's type-column
\* value (an unknown value unchanged) when that value is present and its image
\* is not "User Story"; otherwise it is the level fallback Epic, Feature,
\* User Story, Task for the hierarchy levels 1, 2, 3 and 4 or deeper.
C22_TypeRule ==
    SeenContent =>
        /\ work_items # <<>>
        /\ LastItem.source_row = idx - 1
        /\ LastItem.type =
              IF SeenTyped /\ AliasImage(Strip(row_seen[1]["Type"].v)) # W("User Story")
              THEN AliasImage(Strip(row_seen[1]["Type"].v))
              ELSE LevelType(LastItem.hierarchy_level)

C22_Witness ==
    /\ idx = 2
    /\ Len(work_items) = 2
    /\ Len(df.rows) = 2
    /\ "Type" \in Range(df.columns)
    /\ df.rows[1]["Type"] = Cell(<<Sp, "Story">>)
    /\ work_items[1].hierarchy_level = 4
    /\ work_items[1].type = W("Task")
    /\ df.rows[2]["Type"] = Cell(W("Issue"))
    /\ work_items[2].hierarchy_level = 2
    /\ work_items[2].type = W("Bug")

\* C23: the item's state is the trimmed State value when the row has one that
\* is non-empty after trimming, and "New" otherwise (no State column, a null
\* cell, a whitespace-only cell); it is never the empty string.
C23_StateRule ==
    SeenContent =>
        /\ work_items # <<>>
        /\ LastItem.source_row = idx - 1
        /\ LastItem.state =
              IF "State" \in Range(df.columns) /\ HasText(row_seen[1]["State"])
              THEN Strip(row_seen[1]["State"].v)
              ELSE W("New")
        /\ LastItem.state # <<>>

(***************************************************************************)
(* The tree of a scanned sheet: the model ingested from the one sheet has  *)
(* the work items of the finished scan, and its tree is requested once.    *)
(***************************************************************************)
\* GET /api/models/{model_id}/tree on the model of the scanned sheet
ScanTree ==
    /\ idx = Len(df.rows)
    /\ last.op = "none"
    /\ last' = [op |-> "tree", status |-> "ok", model_id |-> ScanModelId,
                tree |-> BuildTreeStructure([work_items |-> work_items])]
    /\ UNCHANGED <<store, exports, uuid_count, ops, scanVars, inflight>>

NextOutline == ScanRow \/ ScanTree

SpecOutline == InitScan /\ [][NextOutline]_vars

\* the level of row k of the sheet: its deepest populated title column
RowLevel(k) == DeepestPopulated(df.rows[k], TitleColumns(df))

\* the sheet is an outline: every row populates exactly one title column, the
\* first row is at level 1, no row is more than one level below the row
\* before it, and the titles are pairwise distinct
IsOutline ==
    /\ \A k \in 1..Len(df.rows) :
          Cardinality({c \in Range(TitleColumns(df)) : HasText(df.rows[k][c])}) = 1
    /\ RowLevel(1) = 1
    /\ \A k \in 2..Len(df.rows) : RowLevel(k) <= RowLevel(k - 1) + 1
    /\ \A j, k \in 1..Len(df.rows) :
          j # k => Strip(df.rows[j][TitleColumns(df)[RowLevel(j)]].v)
                      # Strip(df.rows[k][TitleColumns(df)[RowLevel(k)]].v)

\* the parent of row k in the outline: <<>> at level 1, else <<the item of the
\* nearest row before k that is one level up>>
OutlineParent(k) ==
    IF RowLevel(k) = 1 THEN <<>>
    ELSE LET up == {j \in 1..(k - 1) : RowLevel(j) = RowLevel(k) - 1}
         IN  <<work_items[CHOOSE j \in up : \A q \in up : q <= j]>>

\* the nodes of every list of siblings of the forest are in row order
RECURSIVE SiblingsInRowOrder(_)
SiblingsInRowOrder(trees) ==
    /\ \A i \in 1..(Len(trees) - 1) :
          trees[i].node.work_item_data.source_row
              < trees[i + 1].node.work_item_data.source_row
    /\ \A i \in 1..Len(trees) : SiblingsInRowOrder(trees[i].children)

C30_AreaPathDepth ==
    \A k \in 1..Len(work_items) :
        Len(Split(work_items[k].area_path)) = work_items[k].hierarchy_level

(***************************************************************************)
(* Properties of the matching of Replace and of the merged summary         *)
(***************************************************************************)
\* C24: a Replace(field, old, new) changes exactly the items whose resolved
\* field value, coerced to a string, equals old, and these are the items a
\* Delete(field, old) would remove from the same model; integer attributes
\* such as priority and hierarchy_level are compared by their string.
C24_ReplaceMatchesLikeDelete ==
    [][(MutatorStep("replace") /\ last'.old_value # last'.new_value) =>
          LET before == ItemsOf(last'.model_id)
              after == store'[last'.model_id].work_items
              changed == {k \in 1..Len(before) : after[k] # before[k]}
              equal == {k \in 1..Len(before) :
                           FieldText(before[k], last'.field_name) = <<last'.old_value>>}
              removed == {k \in 1..Len(before) :
                             DeleteMatches(before[k], last'.field_name, last'.old_value)}
          IN  /\ Len(after) = Len(before)
              /\ changed = equal
              /\ changed = removed
              /\ last'.replacement_count = Cardinality(equal)]_vars

\* the distinct non-empty values the items hold under the key
DistinctValues(items, key) ==
    NonEmpty({items[k][key] : k \in 1..Len(items)})

\* C25: the summary of a merged model counts the distinct non-empty
\* area_path, iteration_path and type values of the merged work items, its
\* work_item_types is the set of those types, and its source model list has
\* one entry per given source id, in request order, with the matching count.
C25_MergedSummary ==
    LastMergeOk =>
        LET merged == store[last.merged_model_id]
            items == merged.work_items
        IN  /\ merged.summary.unique_area_paths
                  = Cardinality(DistinctValues(items, "area_path"))
            /\ merged.summary.unique_iterations
                  = Cardinality(DistinctValues(items, "iteration_path"))
            /\ merged.summary.unique_work_item_types
                  = Cardinality(DistinctValues(items, "type"))
            /\ merged.summary.work_item_types = DistinctValues(items, "type")
            /\ merged.summary.source_model_count = Len(last.model_ids)
            /\ Len(merged.summary.source_models) = Len(last.model_ids)
            /\ \A i \in 1..Len(last.model_ids) :
                  merged.summary.source_models[i] = store[last.model_ids[i]].filename

(***************************************************************************)
(* Ingestion of arbitrary files.  pd.read_excel either raises (the file is *)
(* unreadable) or returns the sheets of the file, none for a file without  *)
(* a worksheet.                                                            *)
(***************************************************************************)
\* the sheet S2 of two rows, and the sheet of the same name that is all NaN
SecondSheet ==
    [name |-> W("S2"),
     df |-> [columns |-> BookColumns,
             rows |-> <<MkRow("Title 1" :> W("D")), MkRow("Title 2" :> W("E"))>>]]

EmptySheet ==
    [name |-> W("S2"),
     df |-> [columns |-> BookColumns, rows |-> <<MkRow([c \in {} |-> c])>>]]

\* the files given to process_excel_file: those of Workbooks, the same with a
\* second sheet, a file without a sheet and a file that cannot be read
Files ==
    {[filename |-> w.filename, source |-> w.source, readable |-> TRUE,
      sheets |-> w.sheets \o more] :
        w \in Workbooks, more \in {<<>>, <<SecondSheet>>, <<EmptySheet>>}}
    \cup {[filename |-> W("none.xlsx"), source |-> W("upload"), readable |-> TRUE,
           sheets |-> <<>>],
          [filename |-> W("bad.xlsx"), source |-> W("upload"), readable |-> FALSE,
           sheets |-> <<>>]}

\* pd.read_excel(file_path, sheet_name=None): <<the sheets>>, or <<>> when it raises
ReadExcel(file) == IF file.readable THEN <<file.sheets>> ELSE <<>>

\* upload_file / download on any file: the id is drawn before the file is
\* read; an exception leaves the store as it is and is answered with 500
IngestFile ==
    /\ ops < MaxOps
    /\ \E file \in Files :
          LET model_id == First8(Uuid4(uuid_count + 1))
              excel_data == ReadExcel(file)
          IN  IF excel_data = <<>>
              THEN /\ store' = store
                   /\ last' = [op |-> "ingest", status |-> "error", http |-> 500,
                               file |-> file]
              ELSE /\ store' = SaveModelData(store, model_id,
                                   ProcessExcelFile([filename |-> file.filename,
                                                     source |-> file.source,
                                                     sheets |-> excel_data[1]],
                                                    model_id))
                   /\ last' = [op |-> "ingest", status |-> "ok",
                               model_id |-> model_id, file |-> file]
    /\ uuid_count' = uuid_count + 1
    /\ ops' = ops + 1
    /\ UNCHANGED <<exports, scanVars, inflight>>

NextIngest == IngestFile

SpecIngest == Init /\ [][NextIngest]_vars

\* the work items of the sheets from position i on, each sheet cleaned
RECURSIVE ItemsOfSheets(_, _, _)
ItemsOfSheets(sheets, i, model_id) ==
    IF i > Len(sheets) THEN <<>>
    ELSE ConvertToWorkItems(CleanDataframe(sheets[i].df), sheets[i].name, model_id)
             \o ItemsOfSheets(sheets, i + 1, model_id)

RaceModelId == First8(Uuid4(1))

RaceFields == {"type", "Area Path"}

\* the requests a handler may serve on the model as it is stored
RaceRequests(st) ==
    UNION {{[op |-> "replace", field_name |-> f, old_value |-> o, new_value |-> n] :
               o \in Resolved(st, RaceModelId, f), n \in {Z, W("Y")}}
           \cup {[op |-> "delete", field_name |-> f, field_value |-> v] :
                    v \in Resolved(st, RaceModelId, f)}
              : f \in RaceFields}
    \cup {[op |-> "update_types", type_mapping |-> tm] : tm \in TypeMappings}

\* the handler's copy after its loop, and whether the handler saves it
Applied(model_data, req) ==
    LET own == SaveModelData([m \in {} |-> m], RaceModelId, model_data)
    IN  CASE req.op = "replace" ->
               LET r == BulkReplaceFieldValue(own, RaceModelId, req.field_name,
                                              req.old_value, req.new_value)
               IN  [model_data |-> r.store[RaceModelId],
                    save |-> r.replacement_count > 0]
          [] req.op = "delete" ->
               LET r == BulkDeleteItemsByFieldValue(own, RaceModelId,
                                                    req.field_name, req.field_value)
               IN  [model_data |-> r.store[RaceModelId],
                    save |-> r.deletion_count > 0]
          [] req.op = "update_types" ->
               [model_data |-> UpdateWorkItemTypes(own, RaceModelId,
                                                   req.type_mapping).store[RaceModelId],
                save |-> TRUE]

\* the store after the handler's write: the file holds the handler's copy
WriteBackFresh(st, model_data, req) ==
    IF Exists(st, RaceModelId) /\ Applied(st[RaceModelId], req).save
    THEN SaveModelData(st, RaceModelId, Applied(st[RaceModelId], req).model_data)
    ELSE st
WriteBack(st, model_data, req) ==
    IF Applied(model_data, req).save
    THEN SaveModelData(st, RaceModelId, Applied(model_data, req).model_data)
    ELSE st

\* one model ingested, and exported or not; no handler running
InitRace ==
    /\ \E workbook \in Workbooks, exported \in BOOLEAN :
          /\ store = SaveModelData([m \in {} |-> m], RaceModelId,
                                   ProcessExcelFile(workbook, RaceModelId))
          /\ exports = IF exported THEN {RaceModelId} ELSE {}
          /\ ops = IF exported THEN 2 ELSE 1
          /\ last = IF exported
                    THEN [op |-> "export", status |-> "ok", model_id |-> RaceModelId,
                          csv |-> ExportToCsv(ProcessExcelFile(workbook, RaceModelId))]
                    ELSE [op |-> "ingest", status |-> "ok", model_id |-> RaceModelId]
    /\ uuid_count = 1
    /\ inflight = NoRequests
    /\ df = [columns |-> <<>>, rows |-> <<>>]
    /\ idx = 0
    /\ last_parent_at_level = EmptyChain
    /\ work_items = <<>>
    /\ row_seen = <<>>

\* get_model_data at the start of a Replace, Delete or type-mapping request
RaceRead(h) ==
    /\ inflight[h].pc = "idle"
    /\ \E req \in RaceRequests(store) :
          IF Exists(store, RaceModelId)
          THEN /\ inflight' = [inflight EXCEPT ![h] =
                                  [pc |-> "loaded", req |-> req,
                                   model_data |-> store[RaceModelId],
                                   read_at |-> ops]]
               /\ last' = last
          ELSE /\ inflight' = [inflight EXCEPT ![h] =
                                  [pc |-> "done", req |-> req, status |-> "not_found"]]
               /\ last' = NotFound(req.op) @@ [model_id |-> RaceModelId]
    /\ ops' = ops + 1
    /\ UNCHANGED <<store, exports, uuid_count, scanVars>>

\* the loop over the handler's copy and _save_model_data at the end
RaceWrite(h) ==
    /\ inflight[h].pc = "loaded"
    /\ store' = WriteBack(store, inflight[h].model_data, inflight[h].req)
    /\ inflight' = [inflight EXCEPT ![h] =
                       [pc |-> "done", req |-> inflight[h].req, status |-> "ok",
                        model_data |-> inflight[h].model_data,
                        read_at |-> inflight[h].read_at, write_at |-> ops]]
    /\ last' = [op |-> inflight[h].req.op, status |-> "ok", model_id |-> RaceModelId]
    /\ ops' = ops + 1
    /\ UNCHANGED <<exports, uuid_count, scanVars>>

\* DELETE /api/models/{model_id} while handlers are running
RaceDeleteModel ==
    /\ Exists(store, RaceModelId)
    /\ store' = [m \in DOMAIN store \ {RaceModelId} |-> store[m]]
    /\ exports' = exports \ {RaceModelId}
    /\ last' = [op |-> "delete_model", status |-> "ok", model_id |-> RaceModelId]
    /\ ops' = ops + 1
    /\ UNCHANGED <<uuid_count, scanVars, inflight>>

NextRace ==
    \/ \E h \in Handlers : RaceRead(h)
    \/ \E h \in Handlers : RaceWrite(h)
    \/ RaceDeleteModel

SpecRace == InitRace /\ [][NextRace]_vars

(***************************************************************************)
(* Properties of the unordered requests                                    *)
(***************************************************************************)
\* both handlers served a Replace on the model they read, and the model is stored
TwoReplacesDone ==
    /\ \A h \in Handlers :
          /\ inflight[h].pc = "done"
          /\ inflight[h].status = "ok"
          /\ inflight[h].req.op = "replace"
    /\ Exists(store, RaceModelId)

\* what handler h computed from the model it read
Outcome(h) == Applied(inflight[h].model_data, inflight[h].req)

\* C27: when two Replace requests on one model both read it before either
\* writes, the stored model afterwards is the copy of the one that wrote
\* last, without the other's replacements; when one request ends before the
\* other reads, the second works on the result of the first and the stored
\* model has the replacements of both.
C27_LastWriteWins ==
    TwoReplacesDone =>
        \A a, b \in Handlers :
            (a # b /\ inflight[a].write_at < inflight[b].write_at) =>
                /\ (inflight[b].read_at < inflight[a].write_at /\ Outcome(b).save) =>
                       store[RaceModelId] = Outcome(b).model_data
                /\ (inflight[b].read_at < inflight[a].write_at /\ ~Outcome(b).save
                        /\ Outcome(a).save) =>
                       store[RaceModelId] = Outcome(a).model_data
                /\ (inflight[a].write_at < inflight[b].read_at /\ Outcome(a).save) =>
                       /\ inflight[b].model_data = Outcome(a).model_data
                       /\ store[RaceModelId]
                             = Applied(Outcome(a).model_data, inflight[b].req).model_data

\* both read the ingested model, 1 then replaced the type Epic by Z and 2 the
\* custom field Area Path: the stored model has the change of 2 only
C27_Witness ==
    /\ TwoReplacesDone
    /\ inflight[1].req.field_name = "type" /\ inflight[1].req.old_value = W("Epic")
    /\ inflight[2].req.field_name = "Area Path"
    /\ inflight[1].model_data = inflight[2].model_data
    /\ inflight[2].read_at < inflight[1].write_at
    /\ inflight[1].write_at < inflight[2].write_at
    /\ Outcome(1).save /\ Outcome(2).save
    /\ store[RaceModelId] = Outcome(2).model_data
    /\ store[RaceModelId].work_items[1].type = W("Epic")
    /\ Outcome(1).model_data.work_items[1].type = Z

\* C28: once delete_model has removed the model no model with that id is in
\* the store again, whatever the requests that read it before the deletion
\* do afterwards.
C28_DeletedStaysDeleted ==
    [][~Exists(store, RaceModelId) => ~Exists(store', RaceModelId)]_vars

====
